---- MODULE Spec2Model ----
(***************************************************************************)
(* big-file-sort: bounded-memory external sort of the bytes of a file.     *)
(*                                                                         *)
(* sort_file (src/src/lib.rs:236-288) reads the input in chunks of         *)
(* cache_size bytes, sorts each chunk and appends it to a scratch file     *)
(* (the Run Producer), then FileSortHelper (lib.rs:7-184) merges the runs  *)
(* of the scratch file into the output file (the Merge Engine).            *)
(*                                                                         *)
(* One behaviour of the model is one invocation of sort_file on one input  *)
(* file with one cache_size.  Every I/O call of the code may fail; a       *)
(* failure follows the `?` of the code.  The input is a regular file, so   *)
(* File::read fills the buffer unless the end of the file is reached.      *)
(* cache_size is a positive budget, as section 6 of the specification      *)
(* requires of the caller.                                                 *)
(* Indices of the engine's vectors are 0-based as in the source.           *)
(***************************************************************************)
EXTENDS Integers, Sequences, FiniteSets, TLC

\* ---------------------------------------------------------------- bounds
\* Number of small byte values 0..NumVals-1 the input is drawn from.
NumVals == 2
\* Longest enumerated input file.
MaxLen == 6
\* Largest enumerated cache_size.
MaxCache == 4

\* u8::MAX, the initial value of `min` in merge (lib.rs:76).
U8MAX == 255

\* Byte values of the enumerated inputs: small values and u8::MAX.
Bytes == (0 .. (NumVals - 1)) \cup {U8MAX}

\* The end-to-end example of the specification (section 8), with its budget.
ExampleInput == <<5, 3, 3, 1, 9, 2>>
ExampleCase == [file |-> ExampleInput, budget |-> 2]

\* Files whose runs have several slices of more than one byte.
WideCases ==
    {[file |-> <<1, 0, 1, 255, 0, 1, 0, 0>>, budget |-> 6],
     [file |-> <<9, 4, 7, 1, 8, 2, 6, 3, 5, 0>>, budget |-> 7],
     [file |-> <<4, 2, 6, 1, 5, 3, 0>>, budget |-> 6]}

FixedCases == {ExampleCase} \cup WideCases

Inputs == UNION {[1 .. n -> Bytes] : n \in 0 .. MaxLen}

\* ------------------------------------------------------------ pure helpers
Min(a, b) == IF a <= b THEN a ELSE b

\* A sort that leaves the chunk as it was read.
SortBytesUnsorted(s) == s

RECURSIVE Insert(_, _)
\* Inserts byte x into the sorted sequence s, keeping it sorted.
Insert(x, s) ==
    IF s = <<>> THEN <<x>>
    ELSE IF x <= Head(s) THEN <<x>> \o s
    ELSE <<Head(s)>> \o Insert(x, Tail(s))

RECURSIVE SortBytes(_)
\* cache.sort_unstable() (lib.rs:254): the bytes in non-decreasing order.
SortBytes(s) == IF s = <<>> THEN <<>> ELSE Insert(Head(s), SortBytes(Tail(s)))

\* Number of occurrences of byte b in s.
Count(s, b) == Cardinality({j \in 1 .. Len(s) : s[j] = b})

\* s and t hold the same multiset of bytes.
SameBytes(s, t) ==
    /\ Len(s) = Len(t)
    /\ \A j \in 1 .. Len(s) : Count(s, s[j]) = Count(t, s[j])

IsSorted(s) == \A j \in 1 .. (Len(s) - 1) : s[j] <= s[j + 1]

\* Result values of sort_file: Ok(path), Err(io error), or a panic.
NoResult == [kind |-> "none", path |-> "none"]
OkResult(p) == [kind |-> "ok", path |-> p]
ErrResult == [kind |-> "err", path |-> "none"]
PanicResult == [kind |-> "panic", path |-> "none"]

\* ------------------------------------------------------------------ state
VARIABLES
    input,          \* content of the file at `path`
    cache_size,     \* argument of sort_file
    pc,             \* position of the invocation
    filePos,        \* read cursor of `file` on the input (lib.rs:241)
    scratchExists,  \* the file at out_file_path ("tmp.txt") exists
    scratch,        \* its content
    outExists,      \* the file at path.with_extension("out.txt") exists
    out,            \* its content
    caches_num,     \* lib.rs:245
    file_len,       \* lib.rs:246
    engine,         \* a FileSortHelper value exists
    buffer_size,    \* FileSortHelper.buffer_size
    in_buffers,     \* FileSortHelper.in_buffers
    in_buffers_pos,
    in_buffers_index,
    out_buffer,
    tmp_buffer,
    slices_per_cache,
    slices_per_last_cache,
    last_slice_size,
    last_slice_in_last_cache_size,
    inPos,          \* cursor of FileSortHelper.in_file on the scratch file
    initI,          \* loop index of init_buffers
    emitted,        \* history: the bytes merge pushed, in the order pushed
    result,         \* what sort_file returned
    ioFailed,       \* an I/O call other than a scratch deletion failed
    rmFailed        \* a deletion of the scratch file failed

fileVars == <<filePos, scratchExists, scratch, outExists, out>>
countVars == <<caches_num, file_len>>
sizeVars == <<buffer_size, slices_per_cache, slices_per_last_cache,
              last_slice_size, last_slice_in_last_cache_size>>
bufVars == <<in_buffers, in_buffers_pos, in_buffers_index, out_buffer,
             tmp_buffer, inPos, initI, emitted>>
envVars == <<ioFailed, rmFailed>>
vars == <<input, cache_size, pc, fileVars, countVars, engine, sizeVars,
          bufVars, result, envVars>>

Init ==
    /\ \/ input \in Inputs /\ cache_size \in 1 .. MaxCache
       \/ \E c \in FixedCases : input = c.file /\ cache_size = c.budget
    /\ pc = "start"
    /\ filePos = 0
    /\ scratchExists = FALSE
    /\ scratch = <<>>
    /\ outExists = FALSE
    /\ out = <<>>
    /\ caches_num = 0
    /\ file_len = 0
    /\ engine = FALSE
    /\ buffer_size = 0
    /\ in_buffers = <<>>
    /\ in_buffers_pos = <<>>
    /\ in_buffers_index = <<>>
    /\ out_buffer = <<>>
    /\ tmp_buffer = <<>>
    /\ slices_per_cache = 0
    /\ slices_per_last_cache = 0
    /\ last_slice_size = 0
    /\ last_slice_in_last_cache_size = 0
    /\ inPos = 0
    /\ initI = 0
    /\ emitted = <<>>
    /\ result = NoResult
    /\ ioFailed = FALSE
    /\ rmFailed = FALSE

\* sort_file returns Err(e) from a failed I/O call made before the engine
\* exists: nothing is cleaned up.
FailIO ==
    /\ pc' = "done"
    /\ result' = ErrResult
    /\ ioFailed' = TRUE

\* ------------------------------------------------------------ run producer
\* fs::File::open(path)? (lib.rs:241)
OpenInput ==
    /\ pc = "start"
    /\ \/ /\ pc' = "create"
          /\ UNCHANGED <<result, envVars>>
       \/ /\ FailIO
          /\ UNCHANGED rmFailed
    /\ UNCHANGED <<input, cache_size, fileVars, countVars, engine, sizeVars,
                   bufVars>>

\* fs::File::create(&out_file_path)? (lib.rs:243)
CreateScratch ==
    /\ pc = "create"
    /\ \/ /\ pc' = "read"
          /\ scratchExists' = TRUE
          /\ scratch' = <<>>
          /\ UNCHANGED <<result, envVars>>
       \/ /\ FailIO
          /\ UNCHANGED <<scratchExists, scratch, rmFailed>>
    /\ UNCHANGED <<input, cache_size, filePos, outExists, out, countVars,
                   engine, sizeVars, bufVars>>

\* One iteration of the loop of lib.rs:248-259, file.read returning n bytes.
ReadStep(n) ==
    /\ pc = "read"
    /\ LET chunk == SubSeq(input, filePos + 1, filePos + n)
       IN \/ \* file.read fails
             /\ FailIO
             /\ UNCHANGED <<fileVars, countVars, rmFailed>>
          \/ \* n == 0: break
             /\ n = 0
             /\ pc' = "check"
             /\ UNCHANGED <<fileVars, countVars, result, envVars>>
          \/ \* file_out.write_all fails
             /\ n > 0
             /\ FailIO
             /\ filePos' = filePos + n
             /\ UNCHANGED <<scratchExists, scratch, outExists, out,
                            countVars, rmFailed>>
          \/ /\ n > 0
             /\ filePos' = filePos + n
             /\ scratch' = scratch \o SortBytes(chunk)
             /\ file_len' = file_len + n
             /\ caches_num' = caches_num + 1
             /\ pc' = "read"
             /\ UNCHANGED <<scratchExists, outExists, out, result, envVars>>
    /\ UNCHANGED <<input, cache_size, engine, sizeVars, bufVars>>

\* The loop iteration on a regular file: the read fills the buffer up to
\* the end of the file.
ReadChunk == ReadStep(Min(cache_size, Len(input) - filePos))

\* Byte counts Read::read may return: 0 only at the end of the file,
\* otherwise any count from 1 to the size of the buffer.
ShortReadLens ==
    IF filePos = Len(input) THEN {0}
    ELSE 1 .. Min(cache_size, Len(input) - filePos)

\* The loop iteration on a reader that may return fewer bytes than asked.
ReadChunkShort == \E n \in ShortReadLens : ReadStep(n)

\* ------------------------------------------------------------ short-circuits
\* A short-circuit that only takes the empty file.
IsTrivialEmptyOnly(len) == len < 1

\* if file_len <= 1 (lib.rs:260)
IsTrivial(len) == len <= 1

\* A single-run test that never takes the short-circuit.
IsSingleRunNever(cn) == cn = 0

\* if caches_num == 1 (lib.rs:266)
IsSingleRun(cn) == cn = 1

\* file_len <= 1 (lib.rs:260-264): remove the scratch file, return `path`.
TrivialReturn ==
    /\ pc = "check"
    /\ IsTrivial(file_len)
    /\ pc' = "done"
    /\ \/ /\ scratchExists' = FALSE
          /\ scratch' = <<>>
          /\ result' = OkResult("in")
          /\ UNCHANGED rmFailed
       \/ \* fs::remove_file(out_file_path)? fails
          /\ result' = ErrResult
          /\ rmFailed' = TRUE
          /\ UNCHANGED <<scratchExists, scratch>>
    /\ UNCHANGED <<input, cache_size, filePos, outExists, out, countVars,
                   engine, sizeVars, bufVars, ioFailed>>

\* caches_num == 1 (lib.rs:266-272): rename the scratch file to "out.txt".
SingleRun ==
    /\ pc = "check"
    /\ ~IsTrivial(file_len)
    /\ IsSingleRun(caches_num)
    /\ \/ /\ pc' = "done"
          /\ out' = scratch
          /\ outExists' = TRUE
          /\ scratchExists' = FALSE
          /\ scratch' = <<>>
          /\ result' = OkResult("out")
          /\ UNCHANGED envVars
       \/ \* fs::rename fails
          /\ FailIO
          /\ UNCHANGED <<scratchExists, scratch, outExists, out, rmFailed>>
    /\ UNCHANGED <<input, cache_size, filePos, countVars, engine, sizeVars,
                   bufVars>>

\* lib.rs:273-276: reopen the scratch file for reading, create "out.txt".
OpenMergeFiles ==
    /\ pc = "check"
    /\ ~IsTrivial(file_len)
    /\ ~IsSingleRun(caches_num)
    /\ \/ /\ pc' = "new"
          /\ outExists' = TRUE
          /\ out' = <<>>
          /\ inPos' = 0
          /\ UNCHANGED <<result, envVars>>
       \/ \* fs::File::open(&out_file_path)? or fs::File::create(..)? fails
          /\ FailIO
          /\ UNCHANGED <<outExists, out, inPos, rmFailed>>
    /\ UNCHANGED <<input, cache_size, filePos, scratchExists, scratch,
                   countVars, engine, sizeVars, in_buffers, in_buffers_pos,
                   in_buffers_index, out_buffer, tmp_buffer, initI, emitted>>

\* ------------------------------------------------------------ merge engine
\* Indices of the runs.
Runs == 0 .. (caches_num - 1)

\* The budget check of FileSortHelper::new (lib.rs:34-35).
BudgetOk(cs, cn) == cn <= cs - 1

\* A buffer size that shares the budget with one buffer too many.
BufferSizeExtraBuffer(cs, cn) == cs \div (cn + 2)

\* buffer_size (lib.rs:36).
BufferSize(cs, cn) == cs \div (cn + 1)

\* ceil(a / b) as the code computes it (lib.rs:43, 45).
CeilDiv(a, b) == (a + (b - 1)) \div b

\* last_cache_size (lib.rs:44).
LastCacheSize(cs, cn, len) == cs - (cs * cn - len)

\* impl Drop for FileSortHelper (lib.rs:180-184): the result of remove_file
\* is discarded.  removed = the deletion succeeded.
DropSorter(removed) ==
    /\ engine' = FALSE
    /\ IF removed
         THEN scratchExists' = FALSE /\ scratch' = <<>> /\ UNCHANGED rmFailed
         ELSE rmFailed' = TRUE /\ UNCHANGED <<scratchExists, scratch>>

\* An I/O call of the engine fails: the error is returned through `?`, the
\* engine goes out of scope and is dropped.
FailEngineIO ==
    /\ FailIO
    /\ \E removed \in BOOLEAN : DropSorter(removed)

\* The subtraction of lib.rs:44 underflows: the runs counted are more than
\* a file of len bytes fills.
LastCacheUnderflow(cs, cn, len) == cs * cn - len > cs

\* The fields of the engine once new has computed its sizes (lib.rs:39-67).
Construct(bs, spc, splc, lss, lsl) ==
    /\ buffer_size' = bs
    /\ in_buffers' = [i \in Runs |-> <<>>]
    /\ in_buffers_pos' = [i \in Runs |-> bs]
    /\ in_buffers_index' = [i \in Runs |-> 0]
    /\ out_buffer' = <<>>
    /\ slices_per_cache' = spc
    /\ slices_per_last_cache' = splc
    /\ last_slice_size' = lss
    /\ last_slice_in_last_cache_size' = lsl
    /\ tmp_buffer' = [j \in 1 .. bs |-> 0]
    /\ engine' = TRUE
    /\ initI' = 0
    /\ pc' = "init"
    /\ UNCHANGED <<inPos, emitted, result>>

\* FileSortHelper::new up to the construction of the value (lib.rs:34-67).
New ==
    /\ pc = "new"
    /\ IF ~BudgetOk(cache_size, caches_num) \/ BufferSize(cache_size, caches_num) = 0
         THEN \* assert! / assert_ne! panics: no FileSortHelper exists yet, so
              \* unwinding only closes the files
              /\ pc' = "done"
              /\ result' = PanicResult
              /\ UNCHANGED <<engine, sizeVars, bufVars>>
         ELSE IF LastCacheUnderflow(cache_size, caches_num, file_len)
         THEN LET bs == BufferSize(cache_size, caches_num)
                  spc == CeilDiv(cache_size, bs)
                  \* last_cache_size wraps to 2^64 - d
                  d == (cache_size * caches_num - file_len) - cache_size
              IN \/ \* overflow checks on: `attempt to subtract with overflow`
                    /\ pc' = "done"
                    /\ result' = PanicResult
                    /\ UNCHANGED <<engine, sizeVars, bufVars>>
                 \/ \* overflow checks off: u64 arithmetic wraps.  With
                    \* d <= bs - 1 the sum of lib.rs:45 wraps again and
                    \* slices_per_last_cache is 0; otherwise it is about
                    \* 2^64 / bs, which -1 stands for: no slice index
                    \* equals it or its predecessor.
                    IF d <= bs - 1
                      THEN Construct(bs, spc, 0,
                                     bs - (spc * bs - cache_size), bs - d)
                      ELSE Construct(bs, spc, -1,
                                     bs - (spc * bs - cache_size), 0)
         ELSE LET bs == BufferSize(cache_size, caches_num)
                  spc == CeilDiv(cache_size, bs)
                  lcs == LastCacheSize(cache_size, caches_num, file_len)
                  splc == CeilDiv(lcs, bs)
              IN Construct(bs, spc, splc, bs - (spc * bs - cache_size),
                           bs - (splc * bs - lcs))
    /\ UNCHANGED <<input, cache_size, fileVars, countVars, envVars>>

\* is_last_buffer (lib.rs:111, 148).
IsLastBuffer(i) == i = caches_num - 1

\* is_last_slice (lib.rs:121-125, 151-155).
IsLastSlice(i, slice_ind) ==
    IF ~IsLastBuffer(i)
      THEN slice_ind = slices_per_cache - 1
      ELSE slice_ind = slices_per_last_cache - 1

\* read_len (lib.rs:126-132, 156-162).
ReadLen(i, slice_ind) ==
    IF ~IsLastSlice(i, slice_ind) THEN buffer_size
    ELSE IF ~IsLastBuffer(i) THEN last_slice_size
    ELSE last_slice_in_last_cache_size

\* in_file.read_exact succeeds iff len bytes are left from pos.
CanReadExact(pos, len) == pos + len <= Len(scratch)

\* tmp_buffer after read_exact(&mut tmp_buffer[..len]) at pos.
Staged(pos, len) ==
    [j \in 1 .. Len(tmp_buffer) |->
        IF j <= len THEN scratch[pos + j] ELSE tmp_buffer[j]]

\* A seek that forgets the bytes the read already consumed.
InitSkipWholeCache(read_len, slice_ind) == cache_size + slice_ind * buffer_size

\* The relative seek after a non-final run's first read (lib.rs:169-171).
InitSkip(read_len, slice_ind) ==
    cache_size - read_len + slice_ind * buffer_size

\* One iteration of the loop of init_buffers (lib.rs:147-173); the last one
\* also runs lib.rs:174-175 and the return of `new` (lib.rs:69).
InitBuffer ==
    /\ pc = "init"
    /\ LET i == initI
           slice_ind == in_buffers_index[i]
           read_len == ReadLen(i, slice_ind)
           skip == IF IsLastBuffer(i) THEN 0 ELSE InitSkip(read_len, slice_ind)
       IN \/ /\ CanReadExact(inPos, read_len)
             /\ tmp_buffer' = Staged(inPos, read_len)
             /\ in_buffers' =
                  [in_buffers EXCEPT ![i] = SubSeq(scratch, inPos + 1, inPos + read_len)]
             /\ in_buffers_pos' = [in_buffers_pos EXCEPT ![i] = 0]
             /\ in_buffers_index' = [in_buffers_index EXCEPT ![i] = slice_ind + 1]
             /\ inPos' = inPos + read_len + skip
             /\ out_buffer' = <<>>
             /\ IF IsLastBuffer(i)
                  THEN pc' = "merge" /\ UNCHANGED initI
                  ELSE pc' = "init" /\ initI' = i + 1
             /\ UNCHANGED <<engine, scratchExists, scratch, emitted, result,
                            envVars>>
          \/ \* read_exact or seek fails (lib.rs:164, 169)
             /\ FailEngineIO
             /\ UNCHANGED bufVars
    /\ UNCHANGED <<input, cache_size, filePos, outExists, out, countVars,
                   sizeVars>>

\* The byte of run i at its cursor is available (lib.rs:79).
HasHead(i) == in_buffers_pos[i] < Len(in_buffers[i])
HeadOf(i) == in_buffers[i][in_buffers_pos[i] + 1]

RECURSIVE ScanFirstHead(_, _)
\* A scan that takes the first run with a byte available, whatever its value.
ScanFirstHead(i, acc) ==
    IF i >= caches_num THEN acc
    ELSE IF HasHead(i) /\ ~acc.changed
      THEN ScanFirstHead(i + 1, [min |-> HeadOf(i), min_ind |-> i, changed |-> TRUE])
      ELSE ScanFirstHead(i + 1, acc)

RECURSIVE Scan(_, _)
\* The scan of lib.rs:75-86 from run i on; acc = [min, min_ind, changed].
Scan(i, acc) ==
    IF i >= caches_num THEN acc
    ELSE IF HasHead(i) /\ HeadOf(i) < acc.min
      THEN Scan(i + 1, [min |-> HeadOf(i), min_ind |-> i, changed |-> TRUE])
      ELSE Scan(i + 1, acc)

ScanAll == Scan(0, [min |-> U8MAX, min_ind |-> 0, changed |-> FALSE])

\* has_next_slice of load_next_buffer (lib.rs:113-117).
HasNextSlice(i, slice_ind) ==
    IF ~IsLastBuffer(i)
      THEN slice_ind # slices_per_cache
      ELSE slice_ind # slices_per_last_cache

\* A seek that always goes back to the start of the run.
SliceOffsetRunStart(i, slice_ind) == i * cache_size

\* Offset load_next_buffer seeks to (lib.rs:134-136).
SliceOffset(i, slice_ind) == i * cache_size + slice_ind * buffer_size

\* A refill that leaves the slice count as it was.
AdvanceSliceStuck(slice_ind) == slice_ind

\* self.in_buffers_index[i] += 1 of load_next_buffer (lib.rs:140).
AdvanceSlice(slice_ind) == slice_ind + 1

\* lib.rs:75-95 of one iteration of the loop of merge: the scan, the break,
\* the push, the advance of the cursor and the refill by load_next_buffer.
MergeSelect ==
    /\ pc = "merge"
    /\ LET sc == ScanAll
           i == sc.min_ind
           newPos == in_buffers_pos[i] + 1
           slice_ind == in_buffers_index[i]
           read_len == ReadLen(i, slice_ind)
           off == SliceOffset(i, slice_ind)
       IN IF ~sc.changed
            THEN /\ pc' = "finish"
                 /\ UNCHANGED <<engine, scratchExists, scratch, bufVars,
                                result, envVars>>
            ELSE IF newPos = Len(in_buffers[i]) /\ HasNextSlice(i, slice_ind)
              THEN \/ /\ CanReadExact(off, read_len)
                      /\ out_buffer' = Append(out_buffer, sc.min)
                      /\ emitted' = Append(emitted, sc.min)
                      /\ tmp_buffer' = Staged(off, read_len)
                      /\ in_buffers' =
                           [in_buffers EXCEPT ![i] = SubSeq(scratch, off + 1, off + read_len)]
                      /\ in_buffers_pos' = [in_buffers_pos EXCEPT ![i] = 0]
                      /\ in_buffers_index' =
                           [in_buffers_index EXCEPT ![i] = AdvanceSlice(slice_ind)]
                      /\ inPos' = off + read_len
                      /\ pc' = "flush"
                      /\ UNCHANGED <<engine, scratchExists, scratch, initI,
                                     result, envVars>>
                   \/ \* seek or read_exact fails (lib.rs:134-137)
                      /\ FailEngineIO
                      /\ UNCHANGED bufVars
              ELSE /\ out_buffer' = Append(out_buffer, sc.min)
                   /\ emitted' = Append(emitted, sc.min)
                   /\ in_buffers_pos' = [in_buffers_pos EXCEPT ![i] = newPos]
                   /\ pc' = "flush"
                   /\ UNCHANGED <<engine, scratchExists, scratch, in_buffers,
                                  in_buffers_index, tmp_buffer, inPos, initI,
                                  result, envVars>>
    /\ UNCHANGED <<input, cache_size, filePos, outExists, out, countVars,
                   sizeVars>>

\* A test that misses the moment the output buffer is full.
OutBufferOverfull == Len(out_buffer) > buffer_size

\* self.out_buffer.len() == self.buffer_size (lib.rs:97).
OutBufferFull == Len(out_buffer) = buffer_size

\* lib.rs:96-100: write the output buffer out once it is full.
MergeFlush ==
    /\ pc = "flush"
    /\ IF OutBufferFull
         THEN \/ /\ out' = out \o out_buffer
                 /\ out_buffer' = <<>>
                 /\ pc' = "merge"
                 /\ UNCHANGED <<engine, scratchExists, scratch, result, envVars>>
              \/ \* write_all fails
                 /\ FailEngineIO
                 /\ UNCHANGED <<out, out_buffer>>
         ELSE /\ pc' = "merge"
              /\ UNCHANGED <<engine, scratchExists, scratch, out, out_buffer,
                             result, envVars>>
    /\ UNCHANGED <<input, cache_size, filePos, outExists, countVars, sizeVars,
                   in_buffers, in_buffers_pos, in_buffers_index, tmp_buffer,
                   inPos, initI, emitted>>

\* lib.rs:102-105 and the return of sort_file (lib.rs:286-287), which drops
\* the engine.
MergeFinish ==
    /\ pc = "finish"
    /\ \/ /\ out' = out \o out_buffer
          /\ pc' = "done"
          /\ result' = OkResult("out")
          /\ \E removed \in BOOLEAN : DropSorter(removed)
          /\ UNCHANGED ioFailed
       \/ \* write_all or flush fails
          /\ FailEngineIO
          /\ UNCHANGED out
    /\ UNCHANGED <<input, cache_size, filePos, outExists, countVars, sizeVars,
                   bufVars>>

Next ==
    \/ OpenInput
    \/ CreateScratch
    \/ ReadChunk
    \/ TrivialReturn
    \/ SingleRun
    \/ OpenMergeFiles
    \/ New
    \/ InitBuffer
    \/ MergeSelect
    \/ MergeFlush
    \/ MergeFinish

Spec == Init /\ [][Next]_vars

\* sort_file on a reader whose reads may be short.
NextShort ==
    \/ OpenInput
    \/ CreateScratch
    \/ ReadChunkShort
    \/ TrivialReturn
    \/ SingleRun
    \/ OpenMergeFiles
    \/ New
    \/ InitBuffer
    \/ MergeSelect
    \/ MergeFlush
    \/ MergeFinish

SpecShort == Init /\ [][NextShort]_vars

\* ------------------------------------------------------------------ claims
\* sort_file returned Ok(path).
Returned == pc = "done" /\ result.kind = "ok"

\* The content of the file at the returned path.
ReturnedFile == IF result.path = "in" THEN input ELSE out

\* No I/O call of the invocation failed.
NoFailure == ~ioFailed /\ ~rmFailed

\* Positions of the invocation inside FileSortHelper.
EnginePcs == {"init", "merge", "flush", "finish"}

RECURSIVE SumLens(_)
\* Total length of the run sub-buffers 0 .. i-1.
SumLens(i) == IF i = 0 THEN 0 ELSE Len(in_buffers[i - 1]) + SumLens(i - 1)

\* Bytes held by the engine's byte buffers: in_buffers, out_buffer, tmp_buffer.
EngineBufferBytes == SumLens(caches_num) + Len(out_buffer) + Len(tmp_buffer)

\* C1: whenever sort_file returns a path, the returned file holds exactly
\* the multiset of bytes of the input (no byte lost, duplicated or altered).
C1_Permutation == Returned => SameBytes(ReturnedFile, input)

\* C2: whenever sort_file returns a path, the bytes of the returned file are
\* in non-decreasing order.
C2_Ordered == Returned => IsSorted(ReturnedFile)

\* C2 witness: an unsorted file of several runs went through the merge and a
\* path was returned.
C2_Witness ==
    /\ Returned
    /\ result.path = "out"
    /\ caches_num >= 2
    /\ ~IsSorted(input)
    /\ Len(out) >= 4
    /\ out[1] < out[Len(out)]

\* The three runs of the example, back to back in the scratch file.
ExampleRuns == <<3, 5, 1, 3, 2, 9>>

IsExample == input = ExampleCase.file /\ cache_size = ExampleCase.budget

C4_BudgetTooSmallIsError ==
    (pc = "done" /\ caches_num >= 2 /\ cache_size < caches_num + 1) =>
        result = ErrResult

\* C5: once an invocation has ended, the scratch file does not exist (a
\* deletion that itself failed aside).
C5_ScratchRemoved == (pc = "done" /\ ~rmFailed) => ~scratchExists

\* C6: for an input of length 0 or 1 the engine is never constructed, and
\* the call returns the input path with neither the scratch file nor an
\* output file on disk.
C6_TrivialInput ==
    Len(input) <= 1 =>
        /\ ~engine /\ pc \notin ({"new"} \cup EnginePcs)
        /\ (pc = "done" /\ NoFailure) =>
              /\ result = OkResult("in")
              /\ ~scratchExists
              /\ ~outExists

\* C6 witness: a one-byte file was read, its scratch file written and the
\* call returned.
C6_Witness ==
    /\ pc = "done"
    /\ Len(input) = 1
    /\ file_len = 1
    /\ caches_num = 1
    /\ result = OkResult("in")

\* C7: for an input of length 2 .. cache_size the engine is never
\* constructed; the scratch file is renamed to the output path, which is
\* returned and holds the input bytes sorted.
C7_SingleRun ==
    (2 <= Len(input) /\ Len(input) <= cache_size) =>
        /\ ~engine /\ pc \notin ({"new"} \cup EnginePcs)
        /\ (pc = "done" /\ NoFailure) =>
              /\ result = OkResult("out")
              /\ ~scratchExists
              /\ outExists
              /\ IsSorted(out)
              /\ SameBytes(out, input)

\* C7 witness: an unsorted file of exactly cache_size bytes was returned
\* through the rename.
C7_Witness ==
    /\ pc = "done"
    /\ Len(input) = cache_size
    /\ Len(input) >= 3
    /\ ~IsSorted(input)
    /\ result = OkResult("out")
    /\ caches_num = 1

\* C8: for an input already in non-decreasing order, the returned file is
\* byte-identical to the input.
C8_Idempotent == (Returned /\ IsSorted(input)) => ReturnedFile = input

\* C9: while the engine exists, its byte buffers hold at most cache_size
\* bytes in total.
C9_MemoryBound == engine => EngineBufferBytes <= cache_size

\* C10: when the only failure of an invocation is the deletion of the
\* scratch file, the caller still receives the path it would have received.
C10_DeleteFailureSwallowed ==
    (pc = "done" /\ rmFailed /\ ~ioFailed) => result.kind = "ok"

\* C11: every input file of at most (cache_size + 1)^2 bytes is accepted:
\* an invocation without an I/O failure returns a path for it.
C11_MaxFileSize ==
    (pc = "done" /\ NoFailure
        /\ Len(input) <= (cache_size + 1) * (cache_size + 1)) =>
        result.kind = "ok"

\* Length of run r of the scratch file when every run but the last holds
\* cache_size bytes.
RunLen(r) == Min(cache_size, Len(input) - r * cache_size)

\* C12: when the run producer loop has finished on a file of L bytes, however
\* the reads were cut, the scratch file holds L bytes in ceil(L / cache_size)
\* runs, every run but the last of cache_size bytes, each run being the
\* sorted bytes of the same range of the input.
C12_RunLayout ==
    pc = "check" =>
        /\ file_len = Len(input)
        /\ Len(scratch) = Len(input)
        /\ caches_num = CeilDiv(Len(input), cache_size)
        /\ \A r \in 0 .. (caches_num - 1) :
              LET lo == r * cache_size
                  run == SubSeq(scratch, lo + 1, lo + RunLen(r))
              IN /\ IsSorted(run)
                 /\ SameBytes(run, SubSeq(input, lo + 1, lo + RunLen(r)))

\* Bytes [lo, lo + len) of the scratch file.
ScratchRange(lo, len) == SubSeq(scratch, lo + 1, lo + len)

\* Every run's sub-buffer holds the first slice of the run, with cursor 0
\* and slice count 1, and the output sub-buffer is empty.
FirstSlicesLoaded ==
    /\ \A i \in 0 .. (caches_num - 1) :
          /\ in_buffers[i] =
                ScratchRange(i * cache_size, Min(buffer_size, RunLen(i)))
          /\ in_buffers_pos[i] = 0
          /\ in_buffers_index[i] = 1
    /\ out_buffer = <<>>

\* C13: when init_buffers completes, every run i holds the bytes of the
\* scratch file at [i*cache_size, i*cache_size + min(buffer_size, length of
\* run i)), its cursor is 0, its slice count is 1, and the output sub-buffer
\* is empty.
C13_InitBuffers ==
    [][(pc = "init" /\ pc' = "merge") => FirstSlicesLoaded']_vars

\* C13 witness: init_buffers has just completed on runs of slices of two
\* bytes, the last run being shorter than a slice.
C13_Witness ==
    /\ pc = "merge"
    /\ out = <<>>
    /\ FirstSlicesLoaded
    /\ caches_num >= 2
    /\ buffer_size >= 2
    /\ RunLen(caches_num - 1) < buffer_size
    /\ in_buffers[0] # in_buffers[1]

\* Number of slices of run i.
SlicesOfRun(i) == CeilDiv(RunLen(i), buffer_size)

\* Length of slice k (k = 0, 1, ...) of run i: buffer_size, or what is left
\* of the run.
SliceLen(i, k) == Min(buffer_size, RunLen(i) - k * buffer_size)

\* The read the engine would issue next for run i lies inside the run.
NextReadInRun(i, off) ==
    LET k == in_buffers_index[i]
    IN /\ off = i * cache_size + k * buffer_size
       /\ ReadLen(i, k) = SliceLen(i, k)
       /\ ReadLen(i, k) >= 1
       /\ off + ReadLen(i, k) <= i * cache_size + RunLen(i)
       /\ off + ReadLen(i, k) <= Len(scratch)

\* In every state of the engine: slice counts stay within the slices of the
\* run, and the next read of init_buffers or of a refill lies inside its run.
SlicesInRange ==
    /\ pc \in EnginePcs =>
          \A i \in 0 .. (caches_num - 1) : in_buffers_index[i] <= SlicesOfRun(i)
    /\ pc = "init" => NextReadInRun(initI, inPos)
    /\ pc \in {"merge", "flush"} =>
          \A i \in 0 .. (caches_num - 1) :
              HasNextSlice(i, in_buffers_index[i]) =>
                  NextReadInRun(i, SliceOffset(i, in_buffers_index[i]))

\* A step that loads a slice of run i loads slice k = the old slice count:
\* the bytes at i*cache_size + k*buffer_size, of the length of that slice,
\* with the cursor reset and the slice count incremented by one.
SliceStep(i) ==
    LET k == in_buffers_index[i]
        off == i * cache_size + k * buffer_size
    IN in_buffers_index'[i] # k =>
          /\ in_buffers_index'[i] = k + 1
          /\ in_buffers_pos'[i] = 0
          /\ in_buffers'[i] = ScratchRange(off, SliceLen(i, k))
          /\ pc = "init" => inPos = off
          /\ pc = "merge" => inPos' = off + SliceLen(i, k)

\* C14: the k-th slice loaded for run i is read from i*cache_size +
\* k*buffer_size with length buffer_size or the remainder of the run; no read
\* leaves the run or the scratch file; each load resets the cursor and
\* increments the slice count, which never exceeds the slices of the run.
C14_Slices ==
    /\ []SlicesInRange
    /\ [][(pc \in {"init", "merge"} /\ pc' \in EnginePcs) =>
            \A i \in 0 .. (caches_num - 1) : SliceStep(i)]_vars

\* C14 witness: a non-final run has been refilled up to its last, shorter
\* slice and the final run up to its last slice.
C14_Witness ==
    /\ pc = "merge"
    /\ buffer_size >= 2
    /\ in_buffers_index[0] = SlicesOfRun(0)
    /\ in_buffers_index[0] >= 3
    /\ Len(in_buffers[0]) < buffer_size
    /\ in_buffers_index[caches_num - 1] = SlicesOfRun(caches_num - 1)
    /\ in_buffers_index[caches_num - 1] >= 2

\* Runs with a byte available at their cursor.
Available == {i \in 0 .. (caches_num - 1) : HasHead(i)}

\* The smallest byte among the available run heads, and the lowest-index
\* run that holds it.
MinHead == CHOOSE m \in {HeadOf(i) : i \in Available} :
               \A i \in Available : m <= HeadOf(i)
Winner == CHOOSE w \in Available :
              /\ HeadOf(w) = MinHead
              /\ \A i \in Available : HeadOf(i) = MinHead => w <= i

\* C15: an iteration of the merge loop that starts with a byte available in
\* some run (and meets no I/O failure) appends the smallest available head,
\* taken from the lowest-index run holding it, and moves only that run's
\* cursor, by one byte.
C15_SmallestHead ==
    [][(pc = "merge" /\ Available # {} /\ pc' # "done") =>
          /\ pc' = "flush"
          /\ out_buffer' = Append(out_buffer, MinHead)
          /\ \A i \in 0 .. (caches_num - 1) :
                IF i = Winner
                  THEN \/ in_buffers_pos'[i] = in_buffers_pos[i] + 1
                       \/ /\ in_buffers_index'[i] = in_buffers_index[i] + 1
                          /\ in_buffers_pos'[i] = 0
                  ELSE /\ in_buffers_pos'[i] = in_buffers_pos[i]
                       /\ in_buffers_index'[i] = in_buffers_index[i]
                       /\ in_buffers'[i] = in_buffers[i]]_vars

\* Bytes of run i the merge has consumed.
ConsumedOf(i) ==
    (in_buffers_index[i] - 1) * buffer_size + in_buffers_pos[i]

\* C16: when merge has left its loop, every run has loaded all its slices
\* and its cursor is at the end of its sub-buffer, and the bytes emitted are
\* as many as the scratch file holds.
C16_LoopExit ==
    pc = "finish" =>
        /\ \A i \in 0 .. (caches_num - 1) :
              /\ ~HasHead(i)
              /\ in_buffers_index[i] = SlicesOfRun(i)
              /\ in_buffers_pos[i] = Len(in_buffers[i])
        /\ Len(out) + Len(out_buffer) = Len(scratch)

RECURSIVE ConsumedUpTo(_)
\* Bytes the merge has consumed from runs 0 .. i-1.
ConsumedUpTo(i) == IF i = 0 THEN 0 ELSE ConsumedOf(i - 1) + ConsumedUpTo(i - 1)

\* Bytes the merge has consumed from all runs.
TotalConsumed == ConsumedUpTo(caches_num)

\* The iterations of the merge loop so far (one byte is emitted in each)
\* are as many as the bytes consumed, at most file_len; and while the loop
\* runs its next step can be taken without an I/O failure.
BoundedProgress ==
    /\ pc \in {"merge", "flush", "finish"} =>
          /\ Len(emitted) = TotalConsumed
          /\ TotalConsumed <= file_len
    /\ pc = "merge" => ENABLED (MergeSelect /\ ~ioFailed')
    /\ pc = "flush" => ENABLED (MergeFlush /\ ~ioFailed')

\* C17: merge terminates when no I/O call fails: every iteration of the loop
\* that does not exit consumes exactly one byte of some run not consumed
\* before, the bytes consumed never exceed file_len, so the loop is left
\* after at most file_len iterations, and it never waits on a step that
\* cannot be taken.
C17_MergeTerminates ==
    /\ []BoundedProgress
    /\ [][(pc = "merge" /\ pc' = "flush") =>
            /\ TotalConsumed' = TotalConsumed + 1
            /\ Len(emitted') = Len(emitted) + 1]_vars

\* C17 witness: the loop has been left after as many iterations as the
\* scratch file has bytes, some of them refills.
C17_Witness ==
    /\ pc = "finish"
    /\ ~ioFailed
    /\ TotalConsumed = file_len
    /\ file_len >= 5
    /\ in_buffers_index[0] >= 2

\* The output sub-buffer stays within buffer_size and is never left full
\* across iterations; output file plus output sub-buffer are the emitted
\* bytes in order; a successful merge leaves them all in the output file.
OutputAccounting ==
    /\ pc \in EnginePcs => Len(out_buffer) <= buffer_size
    /\ pc \in {"merge", "finish"} => Len(out_buffer) < buffer_size
    /\ pc \in {"merge", "flush", "finish"} => out \o out_buffer = emitted
    /\ (pc = "done" /\ result = OkResult("out") /\ caches_num >= 2) =>
          out = emitted

\* C18: the output sub-buffer never holds more than buffer_size bytes and is
\* written out and cleared exactly when it holds buffer_size; the output file
\* followed by the output sub-buffer is the sequence of emitted bytes; after
\* a successful merge the output file holds every emitted byte once.
C18_OutputBuffer ==
    /\ []OutputAccounting
    /\ [][(pc = "flush" /\ pc' = "merge") =>
            IF Len(out_buffer) = buffer_size
              THEN out' = out \o out_buffer /\ out_buffer' = <<>>
              ELSE out' = out /\ out_buffer' = out_buffer]_vars

\* C18 witness: a merge with two-byte sub-buffers returned after several
\* flushes and a final partial write.
C18_Witness ==
    /\ pc = "done"
    /\ result = OkResult("out")
    /\ caches_num >= 2
    /\ buffer_size >= 2
    /\ Len(out_buffer) = 1
    /\ Len(out) >= 5
    /\ out = emitted

\* The file is one byte longer than a multiple of cache_size and its runs
\* are within the budget.
OneByteTail ==
    /\ cache_size >= 2
    /\ Len(input) > cache_size
    /\ Len(input) % cache_size = 1
    /\ BudgetOk(cache_size, CeilDiv(Len(input), cache_size))

\* The final run is one slice of one byte, loaded once from the start of
\* the run and never refilled.
OneByteRunLoaded ==
    LET last == caches_num - 1
    IN /\ RunLen(last) = 1
       /\ slices_per_last_cache = 1
       /\ last_slice_in_last_cache_size = 1
       /\ in_buffers_index[last] = 1
       /\ in_buffers[last] = ScratchRange(last * cache_size, 1)

\* C19: for a file one byte longer than a multiple of cache_size, the final
\* run has length 1 and is loaded by a single one-byte read at
\* (caches_num - 1) * cache_size, it is never refilled, and the returned
\* file is the input sorted.
C19_OneByteTail ==
    OneByteTail =>
        /\ pc \in {"merge", "flush", "finish"} => OneByteRunLoaded
        /\ Returned => IsSorted(out) /\ SameBytes(out, input)

\* No subtraction of FileSortHelper::new (lib.rs:34-48) goes below zero on
\* the arguments (cs, cn, len), and the slice lengths it derives are at
\* least one byte.
NoUnderflow(cs, cn, len) ==
    LET bs == BufferSize(cs, cn)
        spc == CeilDiv(cs, bs)
        lcs == LastCacheSize(cs, cn, len)
        splc == CeilDiv(lcs, bs)
    IN /\ cs - 1 >= 0
       /\ bs - 1 >= 0
       /\ cs * cn - len >= 0
       /\ cs - (cs * cn - len) >= 0
       /\ spc * bs - cs >= 0
       /\ bs - (spc * bs - cs) >= 1
       /\ splc * bs - lcs >= 0
       /\ bs - (splc * bs - lcs) >= 1

\* C20: for every run count within the budget (caches_num + 1 <= cache_size)
\* buffer_size is at least 1, so the second assertion of new cannot fail
\* once the first has passed; and on the arguments sort_file passes to new
\* within the budget, no derived size underflows.
C20_BufferSizePositive ==
    /\ \A cn \in 0 .. (cache_size - 1) :
          BudgetOk(cache_size, cn) => BufferSize(cache_size, cn) >= 1
    /\ (pc = "new" /\ BudgetOk(cache_size, caches_num)) =>
          /\ BufferSize(cache_size, caches_num) >= 1
          /\ NoUnderflow(cache_size, caches_num, file_len)

\* C20 witness: new is about to run within the budget on a file whose last
\* run is shorter than cache_size and whose slices do not divide the runs.
C20_Witness ==
    /\ pc = "new"
    /\ BudgetOk(cache_size, caches_num)
    /\ BufferSize(cache_size, caches_num) >= 2
    /\ cache_size % BufferSize(cache_size, caches_num) # 0
    /\ file_len < cache_size * caches_num

====
